---- MODULE Spec2Model ----
(***************************************************************************)
(* A model of the weather application: weather_data.py (input validation,  *)
(* the two HTTP fetches, the two parsers) and WeatherApp.search_weather    *)
(* of weather_app.py.                                                      *)
(*                                                                         *)
(* Conventions.  A Python str is a sequence of one-character strings.  A   *)
(* Python value that may be None is a record: PyNone or PyStr(s).  A       *)
(* message built by a literal or an f-string is [fmt, args]: the literal   *)
(* text with its placeholders, and the interpolated values as strings.     *)
(* A JSON object is a function on its keys, so that an absent key is a     *)
(* key outside DOMAIN.  A temperature is an integer number of hundredths   *)
(* of a degree.  A call returns [raised |-> FALSE, value |-> v] or         *)
(* [raised |-> TRUE, exc |-> e].                                           *)
(***************************************************************************)
EXTENDS Integers, Sequences, FiniteSets, TLC

VARIABLES
    process,         \* the program run: weather_app or the unit tests
    API_KEY,         \* weather_data.API_KEY, fixed when the module is imported
    status_label,    \* WeatherApp.status_label: [text, fg]
    current_frame,   \* the rows displayed in WeatherApp.current_frame
    forecast_frame,  \* the rows displayed in WeatherApp.forecast_frame
    last,            \* the operation that ran last, with its inputs and its end
    http_log,        \* the HTTP requests issued by the operation that ran last
    hash_order,      \* iteration order of a set of str, fixed per process
    arg,             \* the argument of the function called directly
    arg0,            \* that argument as it was when the process started
    outs             \* per function called directly, its last two results

vars == <<process, API_KEY, status_label, current_frame, forecast_frame, last, http_log,
          hash_order, arg, arg0, outs>>

appVars == <<status_label, current_frame, forecast_frame>>

-----------------------------------------------------------------------------
(* Python values                                                           *)

PyNone == [type |-> "NoneType"]
PyStr(s) == [type |-> "str", s |-> s]

\* bool(v) of a str or None: None and "" are falsy.
Truthy(v) == v.type = "str" /\ v.s # <<>>

Msg(lit) == [fmt |-> lit, args |-> <<>>]
Fmt(lit, a) == [fmt |-> lit, args |-> a]

Returned(v) == [raised |-> FALSE, value |-> v]
Raised(t, m) == [raised |-> TRUE, exc |-> [type |-> t, msg |-> m]]

LowerSeq == <<"a","b","c","d","e","f","g","h","i","j","k","l","m",
              "n","o","p","q","r","s","t","u","v","w","x","y","z">>
UpperSeq == <<"A","B","C","D","E","F","G","H","I","J","K","L","M",
              "N","O","P","Q","R","S","T","U","V","W","X","Y","Z">>

IsLower(c) == \E i \in DOMAIN LowerSeq : LowerSeq[i] = c
IsUpper(c) == \E i \in DOMAIN UpperSeq : UpperSeq[i] = c

\* str.isalpha of one character (the ASCII letters).
isalpha(c) == IsLower(c) \/ IsUpper(c)

\* str.isspace of one character.
isspace(c) == c \in {" ", "\t", "\n"}

RECURSIVE lstrip(_)
lstrip(s) == IF s # <<>> /\ isspace(Head(s)) THEN lstrip(Tail(s)) ELSE s

RECURSIVE rstrip(_)
rstrip(s) ==
    IF s # <<>> /\ isspace(s[Len(s)]) THEN rstrip(SubSeq(s, 1, Len(s) - 1)) ELSE s

\* str.strip(): leading and trailing whitespace removed.
strip(s) == rstrip(lstrip(s))

-----------------------------------------------------------------------------
(* weather_data.validate_input                                             *)

ALLOWED_PUNCT == {"-", "'", ".", ","}

ENTER_CITY_MSG == Msg("Please enter a city name.")
INVALID_CHARS_MSG == Msg("City name contains invalid characters.")

validate_input_nospace(city_name) ==
    IF ~Truthy(city_name) \/ strip(city_name.s) = <<>>
    THEN <<FALSE, ENTER_CITY_MSG>>
    ELSE IF ~(\A i \in DOMAIN city_name.s :
                  \/ isalpha(city_name.s[i])
                  \/ city_name.s[i] \in ALLOWED_PUNCT)
    THEN <<FALSE, INVALID_CHARS_MSG>>
    ELSE <<TRUE, Msg("")>>

validate_input(city_name) ==
    IF ~Truthy(city_name) \/ strip(city_name.s) = <<>>
    THEN <<FALSE, ENTER_CITY_MSG>>
    ELSE IF ~(\A i \in DOMAIN strip(city_name.s) :
                  \/ isalpha(strip(city_name.s)[i])
                  \/ isspace(strip(city_name.s)[i])
                  \/ strip(city_name.s)[i] \in ALLOWED_PUNCT)
    THEN <<FALSE, INVALID_CHARS_MSG>>
    ELSE <<TRUE, Msg("")>>

-----------------------------------------------------------------------------
(* Formatting                                                              *)

Digits == <<"0","1","2","3","4","5","6","7","8","9">>

\* str(n) of an int n >= 0.
RECURSIVE str_nat(_)
str_nat(n) ==
    IF n < 10 THEN <<Digits[n + 1]>>
    ELSE str_nat(n \div 10) \o <<Digits[(n % 10) + 1]>>

\* str(n) of an int.
str_int(n) == IF n < 0 THEN <<"-">> \o str_nat(-n) ELSE str_nat(n)

Abs(n) == IF n < 0 THEN -n ELSE n

\* f"{t:.1f}" of a float of t hundredths: rounded to the nearest tenth, the
\* sign kept even when the rounded value is zero ("-0.0").  A value whose
\* hundredths digit is 5 is rounded by Python on its binary expansion; the
\* temperatures enumerated below have no such digit.
format_1f(t) ==
    (IF t < 0 THEN <<"-">> ELSE <<>>)
        \o str_nat(((Abs(t) + 5) \div 10) \div 10)
        \o <<".">>
        \o <<Digits[(((Abs(t) + 5) \div 10) % 10) + 1]>>

\* repr of a float of v hundredths, v >= 0: the shortest decimal, with
\* at least one decimal digit.
repr_float(v) ==
    str_nat(v \div 100) \o <<".">> \o
        (IF v % 10 = 0 THEN <<Digits[((v \div 10) % 10) + 1]>>
         ELSE <<Digits[((v \div 10) % 10) + 1], Digits[(v % 10) + 1]>>)

ToUpper(c) ==
    IF IsLower(c) THEN UpperSeq[CHOOSE i \in DOMAIN LowerSeq : LowerSeq[i] = c] ELSE c
ToLower(c) ==
    IF IsUpper(c) THEN LowerSeq[CHOOSE i \in DOMAIN UpperSeq : UpperSeq[i] = c] ELSE c

\* str.title(): a letter that follows a letter is lowered, any other letter
\* is raised, the other characters are kept.
title(s) ==
    [i \in DOMAIN s |->
        IF i > 1 /\ isalpha(s[i - 1]) THEN ToLower(s[i]) ELSE ToUpper(s[i])]

DEGREES_C == <<" ", "°", "C">>
PERCENT == <<"%">>
METRES_PER_S == <<" ", "m", "/", "s">>

-----------------------------------------------------------------------------
(* weather_data.fetch_current_weather, weather_data.fetch_forecast         *)

\* What requests.get does: the server answers with a status and a JSON body,
\* or the call raises an exception of the requests library.
Response(code, body) == [kind |-> "response", status_code |-> code, json |-> body]
NetRaise(t, txt) == [kind |-> "raise", type |-> t, text |-> txt]

Request(url, city_name) ==
    [url |-> url,
     params |-> [q |-> strip(city_name), appid |-> API_KEY.s, units |-> "metric"],
     timeout |-> 10]

MISSING_KEY_EXC ==
    Raised("ValueError", Msg("API key is missing. Please set it in config.py."))
NOT_FOUND_EXC(city_name) ==
    Raised("ValueError",
           Fmt("City '{city_name}' not found. Please check the name.", <<city_name>>))
INVALID_KEY_EXC ==
    Raised("ValueError", Msg("Invalid API key. Please check config.py."))
API_ERROR_EXC(code) ==
    Raised("builtins.ConnectionError",
           Fmt("API error (status {response.status_code}).", <<str_int(code)>>))

\* A fetch gives the requests it issued and how it ended.
fetch_current_weather(city_name, net) ==
    IF ~Truthy(API_KEY) THEN [requests |-> <<>>, result |-> MISSING_KEY_EXC]
    ELSE
        [requests |-> <<Request("CURRENT_WEATHER_URL", city_name)>>,
         result |->
            IF net.kind = "raise" THEN Raised(net.type, Fmt("{}", <<net.text>>))
            ELSE IF net.status_code = 404 THEN NOT_FOUND_EXC(city_name)
            ELSE IF net.status_code = 401 THEN INVALID_KEY_EXC
            ELSE IF net.status_code # 200 THEN API_ERROR_EXC(net.status_code)
            ELSE Returned(net.json)]

fetch_forecast_no401(city_name, net) ==
    IF ~Truthy(API_KEY) THEN [requests |-> <<>>, result |-> MISSING_KEY_EXC]
    ELSE
        [requests |-> <<Request("FORECAST_URL", city_name)>>,
         result |->
            IF net.kind = "raise" THEN Raised(net.type, Fmt("{}", <<net.text>>))
            ELSE IF net.status_code = 404 THEN NOT_FOUND_EXC(city_name)
            ELSE IF net.status_code # 200 THEN API_ERROR_EXC(net.status_code)
            ELSE Returned(net.json)]

fetch_forecast(city_name, net) ==
    IF ~Truthy(API_KEY) THEN [requests |-> <<>>, result |-> MISSING_KEY_EXC]
    ELSE
        [requests |-> <<Request("FORECAST_URL", city_name)>>,
         result |->
            IF net.kind = "raise" THEN Raised(net.type, Fmt("{}", <<net.text>>))
            ELSE IF net.status_code = 404 THEN NOT_FOUND_EXC(city_name)
            ELSE IF net.status_code = 401 THEN INVALID_KEY_EXC
            ELSE IF net.status_code # 200 THEN API_ERROR_EXC(net.status_code)
            ELSE Returned(net.json)]

-----------------------------------------------------------------------------
(* weather_data.parse_current_weather                                      *)

KeyError(k) == Raised("KeyError", Msg(k))
IndexError == Raised("IndexError", Msg("list index out of range"))

\* The subscripts of the dict display are evaluated in the order written;
\* the first one that is absent raises, and no dict is built.
parse_current_weather_partial(data) ==
    Returned([temperature |->
                 IF "main" \in DOMAIN data /\ "temp" \in DOMAIN data["main"]
                 THEN format_1f(data["main"]["temp"]) \o DEGREES_C ELSE <<>>,
              condition |->
                 IF "weather" \in DOMAIN data /\ data["weather"] # <<>>
                    /\ "description" \in DOMAIN data["weather"][1]
                 THEN title(data["weather"][1]["description"]) ELSE <<>>,
              humidity |->
                 IF "main" \in DOMAIN data /\ "humidity" \in DOMAIN data["main"]
                 THEN str_int(data["main"]["humidity"]) \o PERCENT ELSE <<>>,
              wind_speed |->
                 IF "wind" \in DOMAIN data /\ "speed" \in DOMAIN data["wind"]
                 THEN repr_float(data["wind"]["speed"]) \o METRES_PER_S ELSE <<>>])

parse_current_weather(data) ==
    IF "main" \notin DOMAIN data THEN KeyError("main")
    ELSE IF "temp" \notin DOMAIN data["main"] THEN KeyError("temp")
    ELSE IF "weather" \notin DOMAIN data THEN KeyError("weather")
    ELSE IF data["weather"] = <<>> THEN IndexError
    ELSE IF "description" \notin DOMAIN data["weather"][1] THEN KeyError("description")
    ELSE IF "humidity" \notin DOMAIN data["main"] THEN KeyError("humidity")
    ELSE IF "wind" \notin DOMAIN data THEN KeyError("wind")
    ELSE IF "speed" \notin DOMAIN data["wind"] THEN KeyError("speed")
    ELSE Returned([temperature |-> format_1f(data["main"]["temp"]) \o DEGREES_C,
                   condition |-> title(data["weather"][1]["description"]),
                   humidity |-> str_int(data["main"]["humidity"]) \o PERCENT,
                   wind_speed |-> repr_float(data["wind"]["speed"]) \o METRES_PER_S])

-----------------------------------------------------------------------------
(* Strings as Python orders and splits them                                *)

\* The printable ASCII characters in code point order (the grave accent,
\* which no string of the model holds, left out).
AsciiSeq == <<
    " ","!","\"","#","$","%","&","'","(",")","*","+",",","-",".","/",
    "0","1","2","3","4","5","6","7","8","9",":",";","<","=",">","?",
    "@","A","B","C","D","E","F","G","H","I","J","K","L","M","N","O",
    "P","Q","R","S","T","U","V","W","X","Y","Z","[","\\","]","^","_",
    "a","b","c","d","e","f","g","h","i","j","k","l","m","n","o",
    "p","q","r","s","t","u","v","w","x","y","z","{","|","}","~">>

\* The rank of a character in code point order: str comparison reads only
\* the order of the code points.
ord(c) == CHOOSE i \in DOMAIN AsciiSeq : AsciiSeq[i] = c

\* s < t for two str: the first differing code point decides, a proper
\* prefix comes first.
RECURSIVE str_lt(_, _)
str_lt(s, t) ==
    IF t = <<>> THEN FALSE
    ELSE IF s = <<>> THEN TRUE
    ELSE IF Head(s) # Head(t) THEN ord(Head(s)) < ord(Head(t))
    ELSE str_lt(Tail(s), Tail(t))

\* sorted(keys) of a set of distinct str.
RECURSIVE sorted(_)
sorted(S) ==
    IF S = {} THEN <<>>
    ELSE LET m == CHOOSE k \in S : \A o \in S \ {k} : str_lt(k, o)
         IN  <<m>> \o sorted(S \ {m})

\* s.split(sep): the parts of s between the occurrences of the character sep.
RECURSIVE split(_, _)
split(s, sep) ==
    IF \A i \in DOMAIN s : s[i] # sep THEN <<s>>
    ELSE LET k == CHOOSE i \in DOMAIN s :
                      s[i] = sep /\ \A j \in 1..(i - 1) : s[j] # sep
         IN  <<SubSeq(s, 1, k - 1)>> \o split(SubSeq(s, k + 1, Len(s)), sep)

-----------------------------------------------------------------------------
(* datetime.strptime(date_str, "%Y-%m-%d").strftime("%a, %b %d")           *)

IsDigit(c) == \E i \in DOMAIN Digits : Digits[i] = c
DigitVal(c) == (CHOOSE i \in DOMAIN Digits : Digits[i] = c) - 1

RECURSIVE int_of(_)
int_of(s) ==
    IF s = <<>> THEN 0 ELSE 10 * int_of(SubSeq(s, 1, Len(s) - 1)) + DigitVal(s[Len(s)])

AllDigits(s) == \A i \in DOMAIN s : IsDigit(s[i])

IsLeap(y) == (y % 4 = 0 /\ y % 100 # 0) \/ y % 400 = 0

DaysInMonth(y, m) ==
    IF m = 2 THEN (IF IsLeap(y) THEN 29 ELSE 28)
    ELSE IF m \in {4, 6, 9, 11} THEN 30 ELSE 31

\* %Y is four digits, %m and %d one or two digits in their ranges, and the
\* day must exist in the month; anything else raises ValueError.
strptime(date_str) ==
    LET parts == split(date_str, "-")
        shaped == /\ Len(parts) = 3
                  /\ Len(parts[1]) = 4 /\ AllDigits(parts[1])
                  /\ Len(parts[2]) \in 1..2 /\ AllDigits(parts[2])
                  /\ Len(parts[3]) \in 1..2 /\ AllDigits(parts[3])
                  /\ int_of(parts[2]) \in 1..12
                  /\ int_of(parts[3]) \in 1..31
    IN  IF ~shaped
        THEN Raised("ValueError",
                    Fmt("time data {!r} does not match format '%Y-%m-%d'", <<date_str>>))
        ELSE IF int_of(parts[1]) < 1
        THEN Raised("ValueError", Fmt("year {} is out of range", <<parts[1]>>))
        ELSE IF int_of(parts[3]) > DaysInMonth(int_of(parts[1]), int_of(parts[2]))
        THEN Raised("ValueError", Msg("day is out of range for month"))
        ELSE Returned([year |-> int_of(parts[1]),
                       month |-> int_of(parts[2]),
                       day |-> int_of(parts[3])])

\* Days from 0001-01-01 (day 1), as date.toordinal().
RECURSIVE DaysBeforeMonth(_, _)
DaysBeforeMonth(y, m) ==
    IF m = 1 THEN 0 ELSE DaysBeforeMonth(y, m - 1) + DaysInMonth(y, m - 1)

toordinal(d) ==
    LET y == d.year - 1
    IN  y * 365 + (y \div 4) - (y \div 100) + (y \div 400)
            + DaysBeforeMonth(d.year, d.month) + d.day

WEEKDAY_ABBR == <<<<"S","u","n">>, <<"M","o","n">>, <<"T","u","e">>, <<"W","e","d">>, <<"T","h","u">>, <<"F","r","i">>, <<"S","a","t">>>>
MONTH_ABBR == <<<<"J","a","n">>, <<"F","e","b">>, <<"M","a","r">>, <<"A","p","r">>,
               <<"M","a","y">>, <<"J","u","n">>, <<"J","u","l">>, <<"A","u","g">>,
               <<"S","e","p">>, <<"O","c","t">>, <<"N","o","v">>, <<"D","e","c">>>>

\* strftime("%a, %b %d"): 0001-01-01 was a Monday.
strftime(d) ==
    WEEKDAY_ABBR[(toordinal(d) % 7) + 1] \o <<",", " ">> \o MONTH_ABBR[d.month]
        \o <<" ">> \o (IF d.day < 10 THEN <<"0">> ELSE <<>>) \o str_nat(d.day)

-----------------------------------------------------------------------------
(* weather_data.parse_forecast                                             *)

\* item["dt_txt"].split(" ")[0]
date_str_of(item) == split(item["dt_txt"], " ")[1]

\* What reading one item raises, if anything: the subscripts of lines 105
\* to 107 in the order they are evaluated.
ItemError(item) ==
    IF "dt_txt" \notin DOMAIN item THEN KeyError("dt_txt")
    ELSE IF "main" \notin DOMAIN item THEN KeyError("main")
    ELSE IF "temp" \notin DOMAIN item["main"] THEN KeyError("temp")
    ELSE IF "weather" \notin DOMAIN item THEN KeyError("weather")
    ELSE IF item["weather"] = <<>> THEN IndexError
    ELSE IF "description" \notin DOMAIN item["weather"][1] THEN KeyError("description")
    ELSE Returned(TRUE)

\* The first error of the grouping loop, or Returned(TRUE).
RECURSIVE LoopError(_)
LoopError(items) ==
    IF items = <<>> THEN Returned(TRUE)
    ELSE IF ItemError(Head(items)).raised THEN ItemError(Head(items))
    ELSE LoopError(Tail(items))

\* daily[date_str] after the loop: the temperatures and the conditions of
\* the items of that date, in the order met.
ItemsOf(items, date_str) == SelectSeq(items, LAMBDA it : date_str_of(it) = date_str)

daily_temps_all(items, date_str) == [i \in DOMAIN items |-> items[i]["main"]["temp"]]

daily_temps(items, date_str) ==
    LET its == ItemsOf(items, date_str)
    IN  [i \in DOMAIN its |-> its[i]["main"]["temp"]]

daily_conditions(items, date_str) ==
    LET its == ItemsOf(items, date_str)
    IN  [i \in DOMAIN its |-> its[i]["weather"][1]["description"]]

daily_keys(items) == {date_str_of(items[i]) : i \in DOMAIN items}

\* max(xs) and min(xs) of a non-empty list of numbers.
RECURSIVE py_max(_)
py_max(xs) ==
    IF Len(xs) = 1 THEN xs[1]
    ELSE IF xs[Len(xs)] > py_max(SubSeq(xs, 1, Len(xs) - 1)) THEN xs[Len(xs)]
    ELSE py_max(SubSeq(xs, 1, Len(xs) - 1))

RECURSIVE py_min(_)
py_min(xs) ==
    IF Len(xs) = 1 THEN xs[1]
    ELSE IF xs[Len(xs)] < py_min(SubSeq(xs, 1, Len(xs) - 1)) THEN xs[Len(xs)]
    ELSE py_min(SubSeq(xs, 1, Len(xs) - 1))

\* list.count
count(xs, x) == Cardinality({i \in DOMAIN xs : xs[i] = x})

\* The elements of set(xs) in the order the set yields them.
set_iter(xs) == SelectSeq(hash_order, LAMBDA x : \E i \in DOMAIN xs : xs[i] = x)

\* max(it, key=...): the first element of it whose key no later one exceeds
\* and no earlier one reaches.
RECURSIVE max_by_count(_, _)
max_by_count(it, xs) ==
    IF Len(it) = 1 THEN it[1]
    ELSE LET best == max_by_count(SubSeq(it, 1, Len(it) - 1), xs)
         IN  IF count(xs, it[Len(it)]) > count(xs, best) THEN it[Len(it)] ELSE best

\* condition = max(set(info["conditions"]), key=info["conditions"].count)
most_common_first_seen(conditions) == conditions[1]

most_common(conditions) == max_by_count(set_iter(conditions), conditions)

\* One entry of forecast_list; date_str parses.
forecast_entry(items, date_str) ==
    [date |-> strftime(strptime(date_str).value),
     max_temp |-> format_1f(py_max(daily_temps(items, date_str))) \o DEGREES_C,
     min_temp |-> format_1f(py_min(daily_temps(items, date_str))) \o DEGREES_C,
     condition |-> title(most_common(daily_conditions(items, date_str)))]

\* The second loop over the keys in the order given: the entries, or the
\* ValueError of the first key that is no date.
RECURSIVE build_forecast_list(_, _)
build_forecast_list(items, keys) ==
    IF keys = <<>> THEN Returned(<<>>)
    ELSE IF strptime(Head(keys)).raised THEN strptime(Head(keys))
    ELSE LET rest == build_forecast_list(items, Tail(keys))
         IN  IF rest.raised THEN rest
             ELSE Returned(<<forecast_entry(items, Head(keys))>> \o rest.value)

\* for date_str in sorted(daily.keys())
sorted_keys_unsorted(items) ==
    LET first(k) == CHOOSE i \in DOMAIN items :
                        date_str_of(items[i]) = k
                        /\ \A j \in 1..(i - 1) : date_str_of(items[j]) # k
        idx == {first(k) : k \in daily_keys(items)}
        RECURSIVE in_order(_)
        in_order(I) == IF I = {} THEN <<>>
                       ELSE LET m == CHOOSE i \in I : \A j \in I : i <= j
                            IN  <<date_str_of(items[m])>> \o in_order(I \ {m})
    IN  in_order(idx)

sorted_keys(items) == sorted(daily_keys(items))

parse_forecast(data) ==
    IF "list" \notin DOMAIN data THEN KeyError("list")
    ELSE IF LoopError(data["list"]).raised THEN LoopError(data["list"])
    ELSE build_forecast_list(data["list"], sorted_keys(data["list"]))

-----------------------------------------------------------------------------
(* weather_app: the tables and WeatherApp.search_weather                   *)

\* A frame is the sequence of its Label widgets, [row, column, text].
Label(r, c, txt) == [row |-> r, column |-> c, text |-> txt]

clear_frame(frame) == <<>>

CURRENT_HEADERS == <<<<"P","a","r","a","m","e","t","e","r">>, <<"V","a","l","u","e">>>>
CURRENT_PARAMS == <<<<"T","e","m","p","e","r","a","t","u","r","e">>, <<"C","o","n","d","i","t","i","o","n">>, <<"H","u","m","i","d","i","t","y">>, <<"W","i","n","d"," ","S","p","e","e","d">>>>
FORECAST_HEADERS == <<<<"D","a","t","e">>, <<"M","a","x"," ","T","e","m","p">>, <<"M","i","n"," ","T","e","m","p">>, <<"C","o","n","d","i","t","i","o","n">>>>

create_current_weather_table(weather_data) ==
    <<Label(0, 0, CURRENT_HEADERS[1]), Label(0, 1, CURRENT_HEADERS[2]),
      Label(1, 0, CURRENT_PARAMS[1]), Label(1, 1, weather_data.temperature),
      Label(2, 0, CURRENT_PARAMS[2]), Label(2, 1, weather_data.condition),
      Label(3, 0, CURRENT_PARAMS[3]), Label(3, 1, weather_data.humidity),
      Label(4, 0, CURRENT_PARAMS[4]), Label(4, 1, weather_data.wind_speed)>>

RECURSIVE forecast_rows(_, _)
forecast_rows(forecast_data, row_idx) ==
    IF forecast_data = <<>> THEN <<>>
    ELSE <<Label(row_idx, 0, Head(forecast_data).date),
           Label(row_idx, 1, Head(forecast_data).max_temp),
           Label(row_idx, 2, Head(forecast_data).min_temp),
           Label(row_idx, 3, Head(forecast_data).condition)>>
         \o forecast_rows(Tail(forecast_data), row_idx + 1)

create_forecast_table(forecast_data) ==
    [c \in 1..4 |-> Label(0, c - 1, FORECAST_HEADERS[c])]
        \o forecast_rows(forecast_data, 1)

CONFIG_MSG == Msg("API key is missing. Please configure config.py.")
FETCHING_MSG == Msg("Fetching weather data...")
CONNECTION_MSG == Msg("Connection error. Please check your internet connection.")
PARSING_MSG == Msg("Error parsing weather data. Unexpected response format.")
REQUEST_FAILED_MSG(e) == Fmt("Request failed: {e}", e.msg.args)
SUCCESS_MSG(city) == Fmt("Weather data for '{city.strip()}'", <<strip(city)>>)

\* The classes an exception is an instance of (itself and its bases), as
\* far as the except clauses of search_weather tell them apart.
Bases(type) ==
    CASE type = "ValueError" -> {"ValueError", "Exception"}
      [] type = "KeyError" -> {"KeyError", "LookupError", "Exception"}
      [] type = "IndexError" -> {"IndexError", "LookupError", "Exception"}
      [] type = "builtins.ConnectionError" ->
            {"builtins.ConnectionError", "OSError", "Exception"}
      [] type = "requests.ConnectionError" ->
            {"requests.ConnectionError", "requests.RequestException", "OSError",
             "Exception"}
      [] type = "requests.Timeout" ->
            {"requests.Timeout", "requests.RequestException", "OSError", "Exception"}
      [] type = "requests.TooManyRedirects" ->
            {"requests.TooManyRedirects", "requests.RequestException", "OSError",
             "Exception"}

\* The except clause of search_weather that takes the exception: the first
\* one, in the order written, that names one of its classes.
except_clause(exc) ==
    IF "ValueError" \in Bases(exc.type) THEN "ValueError"
    ELSE IF {"requests.ConnectionError", "requests.Timeout"} \cap Bases(exc.type) # {}
    THEN "ConnectionError, Timeout"
    ELSE IF "requests.RequestException" \in Bases(exc.type) THEN "RequestException"
    ELSE IF {"KeyError", "IndexError"} \cap Bases(exc.type) # {} THEN "KeyError, IndexError"
    ELSE "uncaught"

\* The body of the try statement, run until it ends or raises: where it
\* stopped, the exception if any, the requests issued, the responses read,
\* and the two frames as the body left them.
try_body(city, net1, net2) ==
    LET r1 == fetch_current_weather(city, net1)
        p1 == parse_current_weather(r1.result.value)
        f1 == create_current_weather_table(p1.value)
        r2 == fetch_forecast(city, net2)
        p2 == parse_forecast(r2.result.value)
        stop(step, e, reqs, nets, cur) ==
            [step |-> step, raised |-> TRUE, exc |-> e, requests |-> reqs,
             nets |-> nets, current_frame |-> cur, forecast_frame |-> forecast_frame]
    IN  IF r1.result.raised
        THEN stop("fetch_current_weather", r1.result.exc, r1.requests, <<net1>>,
                  current_frame)
        ELSE IF p1.raised
        THEN stop("parse_current_weather", p1.exc, r1.requests, <<net1>>, current_frame)
        ELSE IF r2.result.raised
        THEN stop("fetch_forecast", r2.result.exc, r1.requests \o r2.requests,
                  <<net1, net2>>, f1)
        ELSE IF p2.raised
        THEN stop("parse_forecast", p2.exc, r1.requests \o r2.requests,
                  <<net1, net2>>, f1)
        ELSE [step |-> "done", raised |-> FALSE, requests |-> r1.requests \o r2.requests,
              nets |-> <<net1, net2>>, current_frame |-> f1,
              forecast_frame |-> create_forecast_table(p2.value)]

\* What an exception leaves on the window: each except clause sets the
\* status line and clears both frames; an exception no clause takes leaves
\* the window as the try body left it.
handled(b) ==
    LET clause == except_clause(b.exc)
    IN  IF clause = "uncaught"
        THEN [status_label |-> [text |-> FETCHING_MSG, fg |-> "blue"],
              current_frame |-> b.current_frame,
              forecast_frame |-> b.forecast_frame]
        ELSE [status_label |->
                 [text |-> CASE clause = "ValueError" -> b.exc.msg
                             [] clause = "ConnectionError, Timeout" -> CONNECTION_MSG
                             [] clause = "RequestException" -> REQUEST_FAILED_MSG(b.exc)
                             [] clause = "KeyError, IndexError" -> PARSING_MSG,
                  fg |-> "red"],
              current_frame |-> clear_frame(b.current_frame),
              forecast_frame |-> clear_frame(b.forecast_frame)]

-----------------------------------------------------------------------------
(* The inputs enumerated                                                   *)

MaxLen == 3
MaxSamples == 3

RECURSIVE StringsUpTo(_, _)
StringsUpTo(chars, n) ==
    IF n = 0 THEN {<<>>}
    ELSE StringsUpTo(chars, n - 1)
            \cup {Append(s, c) : s \in StringsUpTo(chars, n - 1), c \in chars}

\* validate_input: None and every string of at most MaxLen of these.
ValidateChars == {"a", "Z", " ", "\t", "-", "'", ".", ",", "1", "!"}
ValidateInputs == {PyNone} \cup {PyStr(s) : s \in StringsUpTo(ValidateChars, MaxLen)}

\* The text of the city entry when a lookup starts.
CityInputs == {<<" ">>, <<" ","R","o","m","e">>, <<"R","o","m","e","1">>}

KeyInputs == {PyNone, PyStr(<<>>), PyStr(<<"k","e","y">>)}

Temps == {-504, 1196}
Descs == {<<"c","l","e","a","r"," ","s","k","y">>, <<"l","i","g","h","t"," ","R","a","i","n">>}
Dates == {<<"2","0","2","6","-","0","2","-","2","8">>, <<"2","0","2","6","-","0","3","-","0","1">>}
EARLIER_DATE == <<"2","0","2","5","-","1","2","-","3","1">>

\* The i-th sample of a response is stamped 3 hours after the one before.
TimeOfSample(i) ==
    (IF 3 * (i - 1) % 24 < 10 THEN <<"0">> ELSE <<>>) \o str_nat(3 * (i - 1) % 24)
        \o <<":","0","0",":","0","0">>

Sample(date, time, temp, desc) ==
    [dt_txt |-> date \o <<" ">> \o time,
     main |-> [temp |-> temp],
     weather |-> <<[description |-> desc]>>]

\* Two dates with every temperature and description, and one sample of a
\* third date, of the year before.
SampleChoices == (Dates \X Temps \X Descs) \cup {<<EARLIER_DATE, 1196, <<"c","l","e","a","r"," ","s","k","y">>>>}

ForecastBody(choice) ==
    [list |-> [i \in DOMAIN choice |->
                  Sample(choice[i][1], TimeOfSample(i), choice[i][2], choice[i][3])]]


\* Current-weather bodies: every required path present or absent.
MainChoices == {[temp |-> 2046, humidity |-> 65], [temp |-> -4], [humidity |-> 80], <<>>}
WeatherChoices == {<<[description |-> <<"c","l","e","a","r"," ","s","k","y">>]>>, <<<<>>>>, <<>>}
WindChoices == {[speed |-> 320], [speed |-> 1225], <<>>}

Restrict(f, keys) == [k \in keys |-> f[k]]

CurrentBodies ==
    {Restrict([main |-> m, weather |-> w, wind |-> s], keys) :
        m \in MainChoices, w \in WeatherChoices, s \in WindChoices,
        keys \in SUBSET {"main", "weather", "wind"}}

\* The orders in which a set of str may yield its elements.
Orders(S) ==
    {p \in [1..Cardinality(S) -> S] : \A i, j \in DOMAIN p : i # j => p[i] # p[j]}

\* The bodies and the outcomes of requests.get that a lookup is run against.
GOOD_CURRENT ==
    [main |-> [temp |-> 2046, humidity |-> 65],
     weather |-> <<[description |-> <<"c","l","e","a","r"," ","s","k","y">>]>>,
     wind |-> [speed |-> 320]]
COLD_CURRENT ==
    [main |-> [temp |-> -504, humidity |-> 80],
     weather |-> <<[description |-> <<"l","i","g","h","t"," ","R","a","i","n">>]>>,
     wind |-> [speed |-> 100]]

AppCurrentBodies ==
    {GOOD_CURRENT, COLD_CURRENT,
     Restrict(GOOD_CURRENT, {"weather", "wind"}),
     [GOOD_CURRENT EXCEPT !.weather = <<>>]}

TWO_DAYS ==
    ForecastBody(<<<<<<"2","0","2","6","-","0","3","-","0","1">>, 1196, <<"c","l","e","a","r"," ","s","k","y">>>>,
                   <<<<"2","0","2","6","-","0","2","-","2","8">>, -504, <<"l","i","g","h","t"," ","R","a","i","n">>>>,
                   <<<<"2","0","2","6","-","0","3","-","0","1">>, -504, <<"c","l","e","a","r"," ","s","k","y">>>>>>)

AppForecastBodies ==
    {[list |-> <<>>], TWO_DAYS, <<>>,
     [list |-> <<Sample(<<"2","0","2","6","-","0","2","-","3","0">>, <<"0","0",":","0","0",":","0","0">>, 1196, <<"c","l","e","a","r"," ","s","k","y">>)>>]}

StatusCodes == {200, 401, 404, 500, 503}

NetFailures ==
    {NetRaise("requests.ConnectionError", <<"r","e","f","u","s","e","d">>),
     NetRaise("requests.Timeout", <<"t","i","m","e","d"," ","o","u","t">>),
     NetRaise("requests.TooManyRedirects", <<"r","e","d","i","r","e","c","t","s">>)}

NetOutcomes(bodies) ==
    {Response(200, b) : b \in bodies}
        \cup {Response(c, <<>>) : c \in StatusCodes \ {200}}
        \cup NetFailures

-----------------------------------------------------------------------------
(* The state machine                                                       *)

NO_OP == [op |-> "none"]
NO_EXC == [type |-> "none"]
NO_OUTS == [validate_input |-> <<>>, parse_current_weather |-> <<>>,
            parse_forecast |-> <<>>]
NO_ARG == PyNone

\* The window as _build_ui leaves it.
InitWindow ==
    /\ status_label = [text |-> Msg(""), fg |-> "red"]
    /\ current_frame = <<>>
    /\ forecast_frame = <<>>
    /\ last = NO_OP
    /\ http_log = <<>>

\* The application: config.py is imported, the window is built.
Init ==
    /\ process \in {"weather_app", "test_weather_app"}
    /\ API_KEY \in KeyInputs
    /\ hash_order \in Orders(Descs)
    /\ InitWindow
    /\ arg = NO_ARG /\ arg0 = NO_ARG /\ outs = NO_OUTS

\* The last two results of a function called directly.
Push(window, r) == IF Len(window) < 2 THEN Append(window, r) ELSE <<window[2], r>>

\* search_weather: the Search button or the Return key, with the text of
\* the entry and what the two requests would meet.
search_weather_novalidate(city, net1, net2) ==
    IF ~Truthy(API_KEY)
    THEN /\ status_label' = [status_label EXCEPT !.text = CONFIG_MSG]
         /\ UNCHANGED <<current_frame, forecast_frame>>
         /\ http_log' = <<>>
         /\ last' = [op |-> "search_weather", city |-> city, step |-> "config",
                     raised |-> FALSE, exc |-> NO_EXC, nets |-> <<>>]
    ELSE LET b == try_body(city, net1, net2)
         IN  /\ http_log' = b.requests
             /\ last' = [op |-> "search_weather", city |-> city, step |-> b.step,
                         raised |-> b.raised,
                         exc |-> IF b.raised THEN b.exc ELSE NO_EXC,
                         nets |-> b.nets]
             /\ IF b.raised
                THEN /\ status_label' = handled(b).status_label
                     /\ current_frame' = handled(b).current_frame
                     /\ forecast_frame' = handled(b).forecast_frame
                ELSE /\ status_label' = [text |-> SUCCESS_MSG(city), fg |-> "green"]
                     /\ current_frame' = b.current_frame
                     /\ forecast_frame' = b.forecast_frame

search_weather(city, net1, net2) ==
    IF ~validate_input(PyStr(city))[1]
    THEN /\ status_label' = [status_label EXCEPT !.text = validate_input(PyStr(city))[2]]
         /\ UNCHANGED <<current_frame, forecast_frame>>
         /\ http_log' = <<>>
         /\ last' = [op |-> "search_weather", city |-> city, step |-> "validate",
                     raised |-> FALSE, exc |-> NO_EXC, nets |-> <<>>]
    ELSE IF ~Truthy(API_KEY)
    THEN /\ status_label' = [status_label EXCEPT !.text = CONFIG_MSG]
         /\ UNCHANGED <<current_frame, forecast_frame>>
         /\ http_log' = <<>>
         /\ last' = [op |-> "search_weather", city |-> city, step |-> "config",
                     raised |-> FALSE, exc |-> NO_EXC, nets |-> <<>>]
    ELSE LET b == try_body(city, net1, net2)
         IN  /\ http_log' = b.requests
             /\ last' = [op |-> "search_weather", city |-> city, step |-> b.step,
                         raised |-> b.raised,
                         exc |-> IF b.raised THEN b.exc ELSE NO_EXC,
                         nets |-> b.nets]
             /\ IF b.raised
                THEN /\ status_label' = handled(b).status_label
                     /\ current_frame' = handled(b).current_frame
                     /\ forecast_frame' = handled(b).forecast_frame
                ELSE /\ status_label' = [text |-> SUCCESS_MSG(city), fg |-> "green"]
                     /\ current_frame' = b.current_frame
                     /\ forecast_frame' = b.forecast_frame

\* How many responses a lookup reads: a response it never asks for is not
\* enumerated.
ReadsFirst(city) == validate_input(PyStr(city))[1] /\ Truthy(API_KEY)
ReadsSecond(city, net1) ==
    /\ ReadsFirst(city)
    /\ ~fetch_current_weather(city, net1).result.raised
    /\ ~parse_current_weather(fetch_current_weather(city, net1).result.value).raised

NO_RESPONSE == Response(0, <<>>)

SearchWeather ==
    /\ process = "weather_app"
    /\ \E city \in CityInputs :
        \E net1 \in IF ReadsFirst(city) THEN NetOutcomes(AppCurrentBodies)
                    ELSE {NO_RESPONSE} :
            \E net2 \in IF ReadsSecond(city, net1) THEN NetOutcomes(AppForecastBodies)
                        ELSE {NO_RESPONSE} :
                /\ search_weather(city, net1, net2)
                /\ UNCHANGED <<process, API_KEY, hash_order, arg, arg0, outs>>

\* fetch_current_weather and fetch_forecast called on their own, as the
\* unit tests call them.
CallFetchCurrentWeather ==
    /\ process = "test_weather_app"
    /\ \E city \in CityInputs, net \in NetOutcomes(AppCurrentBodies) :
        /\ last' = [op |-> "fetch_current_weather", city |-> city, nets |-> <<net>>,
                    result |-> fetch_current_weather(city, net).result]
        /\ http_log' = fetch_current_weather(city, net).requests
        /\ UNCHANGED <<process, API_KEY, hash_order, appVars, arg, arg0, outs>>

CallFetchForecast ==
    /\ process = "test_weather_app"
    /\ \E city \in CityInputs, net \in NetOutcomes(AppForecastBodies) :
        /\ last' = [op |-> "fetch_forecast", city |-> city, nets |-> <<net>>,
                    result |-> fetch_forecast(city, net).result]
        /\ http_log' = fetch_forecast(city, net).requests
        /\ UNCHANGED <<process, API_KEY, hash_order, appVars, arg, arg0, outs>>

Next == SearchWeather \/ CallFetchCurrentWeather \/ CallFetchForecast

Spec == Init /\ [][Next]_vars

-----------------------------------------------------------------------------
(* The functions of weather_data called on their own                       *)

InitCalls(inputs) ==
    /\ process = "test_weather_app"
    /\ API_KEY = PyNone
    /\ InitWindow
    /\ arg \in inputs
    /\ arg0 = arg
    /\ outs = NO_OUTS

\* A str and None cannot be changed by the function they are passed to; a
\* dict can.  Neither parser assigns to data or to anything reached from it.
data_after_parse_forecast_pops(data) ==
    IF "list" \in DOMAIN data /\ ~LoopError(data["list"]).raised
    THEN [data EXCEPT !["list"] = <<>>]
    ELSE data

data_after_parse_forecast(data) == data

data_after_parse_current_weather(data) == data

CallValidateInput ==
    /\ outs' = [outs EXCEPT !.validate_input = Push(@, validate_input(arg))]
    /\ UNCHANGED <<process, API_KEY, hash_order, appVars, last, http_log, arg, arg0>>

CallParseCurrentWeather ==
    /\ "list" \notin DOMAIN arg
    /\ outs' = [outs EXCEPT
                   !.parse_current_weather = Push(@, parse_current_weather(arg))]
    /\ arg' = data_after_parse_current_weather(arg)
    /\ UNCHANGED <<process, API_KEY, hash_order, appVars, last, http_log, arg0>>

CallParseForecast ==
    /\ "list" \in DOMAIN arg
    /\ outs' = [outs EXCEPT !.parse_forecast = Push(@, parse_forecast(arg))]
    /\ arg' = data_after_parse_forecast(arg)
    /\ UNCHANGED <<process, API_KEY, hash_order, appVars, last, http_log, arg0>>

InitValidate ==
    InitCalls(ValidateInputs) /\ hash_order = CHOOSE o \in Orders(Descs) : TRUE
NextValidate == CallValidateInput
SpecValidate == InitValidate /\ [][NextValidate]_vars

\* A forecast body of at most MaxSamples samples, or a current-weather body.
InitParse ==
    /\ hash_order \in Orders(Descs)
    /\ \/ \E n \in 0..MaxSamples :
              \E ch \in [1..n -> SampleChoices] : InitCalls({ForecastBody(ch)})
       \/ InitCalls(CurrentBodies)
NextParse == CallParseCurrentWeather \/ CallParseForecast
SpecParse == InitParse /\ [][NextParse]_vars

-----------------------------------------------------------------------------
(* The claims                                                              *)

Fetches == {"fetch_current_weather", "fetch_forecast"}
LastOf(window) == window[Len(window)]

\* C1: in fetch_current_weather and in fetch_forecast alike, with an API key
\* configured, the status of the response decides the outcome: 200 returns
\* the body, 404 fails naming the city, 401 fails with "Invalid API key",
\* any other status fails with an "API error" carrying the status code.
C1_StatusDecidesOutcome ==
    (last.op \in Fetches /\ Truthy(API_KEY) /\ last.nets[1].kind = "response") =>
        LET code == last.nets[1].status_code
            r == last.result
        IN  /\ code = 200 => r = [raised |-> FALSE, value |-> last.nets[1].json]
            /\ code = 404 =>
                  /\ r.raised
                  /\ r.exc.msg.fmt = "City '{city_name}' not found. Please check the name."
                  /\ r.exc.msg.args = <<last.city>>
            /\ code = 401 =>
                  /\ r.raised
                  /\ r.exc.msg = [fmt |-> "Invalid API key. Please check config.py.",
                                  args |-> <<>>]
            /\ code \notin {200, 404, 401} =>
                  /\ r.raised
                  /\ r.exc.msg.fmt = "API error (status {response.status_code})."
                  /\ r.exc.msg.args = <<str_int(code)>>

C1_Witness ==
    /\ last.op = "fetch_forecast" /\ Truthy(API_KEY)
    /\ last.nets[1].kind = "response" /\ last.nets[1].status_code = 401
    /\ last.result.raised /\ http_log # <<>>

\* C2: no HTTP request is issued unless an API key is configured and, in a
\* lookup, the city passed validate_input; a fetch without a key fails with
\* the configuration error and a lookup with an invalid city or without a
\* key ends with its message shown, both with no request made.
C2_NoRequestWithoutKeyAndValidCity ==
    /\ http_log # <<>> =>
          /\ Truthy(API_KEY)
          /\ last.op = "search_weather" => validate_input(PyStr(last.city))[1]
    /\ (last.op \in Fetches /\ ~Truthy(API_KEY)) =>
          /\ http_log = <<>>
          /\ last.result.raised /\ last.result.exc.type = "ValueError"
          /\ last.result.exc.msg.fmt = "API key is missing. Please set it in config.py."
    /\ (last.op = "search_weather" /\ ~validate_input(PyStr(last.city))[1]) =>
          /\ http_log = <<>>
          /\ status_label.text = validate_input(PyStr(last.city))[2]
    /\ (last.op = "search_weather" /\ validate_input(PyStr(last.city))[1]
            /\ ~Truthy(API_KEY)) =>
          /\ http_log = <<>>
          /\ status_label.text.fmt = "API key is missing. Please configure config.py."

C2_Witness ==
    /\ last.op = "search_weather" /\ Truthy(API_KEY)
    /\ ~validate_input(PyStr(last.city))[1]
    /\ status_label.text = INVALID_CHARS_MSG /\ http_log = <<>>

\* The input with its leading and trailing whitespace removed, by position.
Trimmed(s) ==
    LET keep == {i \in DOMAIN s : ~isspace(s[i])}
        lo == CHOOSE i \in keep : \A j \in keep : i <= j
        hi == CHOOSE i \in keep : \A j \in keep : j <= i
    IN  IF keep = {} THEN <<>> ELSE SubSeq(s, lo, hi)

\* C3: validate_input returns (invalid, enter a city name) when the input
\* is absent, empty or only whitespace; otherwise (invalid, invalid
\* characters) exactly when the trimmed input holds a character that is no
\* letter, no whitespace and none of - ' . , ; otherwise (valid, "").
C3_ValidateInputThreeResults ==
    outs.validate_input # <<>> =>
        LET r == LastOf(outs.validate_input)
            blank == \/ arg.type = "NoneType"
                     \/ \A i \in DOMAIN arg.s : arg.s[i] \in {" ", "\t", "\n"}
            bad(c) == ~isalpha(c) /\ c \notin {" ", "\t", "\n"} /\ c \notin {"-", "'", ".", ","}
        IN  IF blank
            THEN r = <<FALSE, [fmt |-> "Please enter a city name.", args |-> <<>>]>>
            ELSE IF \E i \in DOMAIN Trimmed(arg.s) : bad(Trimmed(arg.s)[i])
            THEN r = <<FALSE, [fmt |-> "City name contains invalid characters.",
                               args |-> <<>>]>>
            ELSE r = <<TRUE, [fmt |-> "", args |-> <<>>]>>

C3_Witness ==
    /\ outs.validate_input # <<>>
    /\ arg = PyStr(<<" ", "a", "\t">>)
    /\ LastOf(outs.validate_input) = <<TRUE, Msg("")>>

\* C4: whichever error ends a lookup, at whichever step, both tables are
\* cleared of the data displayed before.
C4_ErrorsClearBothTables ==
    (last.op = "search_weather" /\ last.step # "done") =>
        (current_frame = <<>> /\ forecast_frame = <<>>)

\* C5: a lookup whose fetch meets a status other than 200, 404 and 401 ends
\* with an error shown that carries the status code, the status line not
\* left at "Fetching weather data...".
C5_OtherStatusReported ==
    (/\ last.op = "search_weather"
     /\ last.step \in Fetches
     /\ LastOf(last.nets).kind = "response"
     /\ LastOf(last.nets).status_code \notin {200, 404, 401}) =>
        /\ status_label.text.fmt # "Fetching weather data..."
        /\ \E i \in DOMAIN status_label.text.args :
              status_label.text.args[i] = str_int(LastOf(last.nets).status_code)

\* The calendar date of a sample: the part of dt_txt before its first space.
DateOf(item) ==
    LET s == item["dt_txt"]
        sp == {i \in DOMAIN s : s[i] = " "}
    IN  IF sp = {} THEN s
        ELSE SubSeq(s, 1, (CHOOSE i \in sp : \A j \in sp : i <= j) - 1)

DatesOf(items) == {DateOf(items[i]) : i \in DOMAIN items}

\* A date YYYY-MM-DD as a number that grows with the calendar.
Chrono(d) ==
    LET v(i) == CHOOSE n \in 0..9 : Digits[n + 1] = d[i]
    IN  (((v(1) * 10 + v(2)) * 10 + v(3)) * 10 + v(4)) * 10000
            + (v(6) * 10 + v(7)) * 100 + (v(9) * 10 + v(10))

\* The place of a date among the dates of the input, earliest first.
Rank(d, items) == 1 + Cardinality({e \in DatesOf(items) : Chrono(e) < Chrono(d)})

DayLabel(d) == strftime(strptime(d).value)

\* C6: parse_forecast returns one entry per distinct date of the input,
\* however the samples of the dates are interleaved, in strictly ascending
\* date order; an empty list gives an empty sequence, not an error.
C6_OneEntryPerDateAscending ==
    outs.parse_forecast # <<>> =>
        LET r == LastOf(outs.parse_forecast)
            items == arg0["list"]
        IN  /\ ~r.raised
            /\ Len(r.value) = Cardinality(DatesOf(items))
            /\ \A d \in DatesOf(items) : r.value[Rank(d, items)].date = DayLabel(d)
            /\ items = <<>> => r.value = <<>>

C6_Witness ==
    /\ outs.parse_forecast # <<>>
    /\ Len(arg0["list"]) = 3
    /\ DateOf(arg0["list"][1]) = DateOf(arg0["list"][3])
    /\ Chrono(DateOf(arg0["list"][2])) < Chrono(DateOf(arg0["list"][1]))
    /\ Len(LastOf(outs.parse_forecast).value) = 2
    /\ LastOf(outs.parse_forecast).value[2].date = DayLabel(DateOf(arg0["list"][1]))

TempsOn(d, items) == {items[i]["main"]["temp"] : i \in {j \in DOMAIN items : DateOf(items[j]) = d}}

\* C7: the max_temp and the min_temp of an entry are the maximum and the
\* minimum of the temperatures of the samples of its date and of no other,
\* so that min_temp <= max_temp and both occur among those samples.
C7_MaxMinOfOwnDate ==
    outs.parse_forecast # <<>> =>
        LET r == LastOf(outs.parse_forecast)
            items == arg0["list"]
        IN  \A d \in DatesOf(items) :
                LET T == TempsOn(d, items)
                    hi == CHOOSE x \in T : \A y \in T : y <= x
                    lo == CHOOSE x \in T : \A y \in T : x <= y
                IN  /\ r.value[Rank(d, items)].max_temp = format_1f(hi) \o <<" ", "°", "C">>
                    /\ r.value[Rank(d, items)].min_temp = format_1f(lo) \o <<" ", "°", "C">>
                    /\ lo <= hi

C7_Witness ==
    /\ outs.parse_forecast # <<>>
    /\ Len(LastOf(outs.parse_forecast).value) = 2
    /\ LastOf(outs.parse_forecast).value[1].max_temp
          # LastOf(outs.parse_forecast).value[1].min_temp
    /\ LastOf(outs.parse_forecast).value[2].max_temp
          # LastOf(outs.parse_forecast).value[1].max_temp
    /\ LastOf(outs.parse_forecast).value[2].max_temp
          = LastOf(outs.parse_forecast).value[2].min_temp

\* How many samples of date d carry the description c.
Occurs(c, d, items) ==
    Cardinality({i \in DOMAIN items :
                    DateOf(items[i]) = d /\ items[i]["weather"][1]["description"] = c})

DescsOn(d, items) ==
    {items[i]["weather"][1]["description"] : i \in {j \in DOMAIN items : DateOf(items[j]) = d}}

\* C8: the condition of an entry is the title-cased form of a description
\* of its date that no other description of that date outnumbers; a
\* description that outnumbers all the others is the one chosen.
C8_ConditionMostFrequent ==
    outs.parse_forecast # <<>> =>
        LET r == LastOf(outs.parse_forecast)
            items == arg0["list"]
        IN  \A d \in DatesOf(items) :
                \E c \in DescsOn(d, items) :
                    /\ \A o \in DescsOn(d, items) : Occurs(o, d, items) <= Occurs(c, d, items)
                    /\ r.value[Rank(d, items)].condition = title(c)

C8_Witness ==
    /\ outs.parse_forecast # <<>>
    /\ Len(arg0["list"]) = 3
    /\ DatesOf(arg0["list"]) = {DateOf(arg0["list"][1])}
    /\ arg0["list"][1]["weather"][1]["description"] = <<"c","l","e","a","r"," ","s","k","y">>
    /\ arg0["list"][2]["weather"][1]["description"] = <<"l","i","g","h","t"," ","R","a","i","n">>
    /\ arg0["list"][3]["weather"][1]["description"] = <<"l","i","g","h","t"," ","R","a","i","n">>
    /\ LastOf(outs.parse_forecast).value[1].condition = <<"L","i","g","h","t"," ","R","a","i","n">>

\* C9: a 200 response that lacks main.temp, weather[0].description,
\* main.humidity or wind.speed makes parse_current_weather fail with a
\* missing-field error, no record being returned or displayed, and the
\* lookup shows the generic parsing message, never the name of the field.
C9_MissingFieldIsParsingError ==
    (/\ last.op = "search_weather"
     /\ last.nets # <<>>
     /\ last.nets[1].kind = "response"
     /\ last.nets[1].status_code = 200
     /\ LET body == last.nets[1].json
        IN  \/ "main" \notin DOMAIN body
            \/ "weather" \notin DOMAIN body
            \/ "wind" \notin DOMAIN body
            \/ "temp" \notin DOMAIN body["main"]
            \/ "humidity" \notin DOMAIN body["main"]
            \/ body["weather"] = <<>>
            \/ "description" \notin DOMAIN body["weather"][1]
            \/ "speed" \notin DOMAIN body["wind"]) =>
        /\ last.step = "parse_current_weather"
        /\ last.raised
        /\ last.exc.type \in {"KeyError", "IndexError"}
        /\ status_label.text =
              [fmt |-> "Error parsing weather data. Unexpected response format.",
               args |-> <<>>]
        /\ current_frame = <<>>

C9_Witness ==
    /\ last.op = "search_weather"
    /\ last.step = "parse_current_weather"
    /\ last.exc = [type |-> "KeyError", msg |-> Msg("main")]
    /\ status_label.text = PARSING_MSG

====
